---- MODULE Spec2Model ----
(***************************************************************************)
(* Model of src/topology_check.py: the three topology detectors           *)
(* check_overlap, check_gap and check_containment over one GeoDataFrame.  *)
(*                                                                         *)
(* Geometry is modelled on a 3 x 3 grid of unit cells: a polygon is the   *)
(* set of cells it covers (cell <<x, y>> is the closed square             *)
(* [x, x+1] x [y, y+1]), its area the number of cells.  A geometry also   *)
(* carries its representation (vertex order), because the frame's         *)
(* drop_duplicates compares geometries by their bytes (WKB), not by       *)
(* shape.                                                                  *)
(***************************************************************************)
EXTENDS Integers, Sequences, FiniteSets, TLC

\* Largest number of rows of the input GeoDataFrame.
MaxFeatures == 3

\* Thresholds (threshold, min_area) range over 0 .. MaxThreshold.
MaxThreshold == 2

VARIABLES
    gdf,        \* the caller's GeoDataFrame: geometry column and other columns
    idarg,      \* the id_col argument the caller passes ("None" for None)
    callerIds,  \* the values the caller supplied in column idarg
    libsym,     \* whether overlay output bytes are independent of operand order
    pc,         \* per detector: position in its code
    id_col,     \* per detector: local id_col after lines 37-39
    threshold,  \* per detector: threshold / min_area argument
    idx,        \* per detector: position of the outer loop (iterrows)
    rowid,      \* per detector: id values of the rows iterrows yields
    data,       \* per detector: data_overlaps / data_containment / data_gaps
    log,        \* per detector: logging records emitted
    exc,        \* per detector: exception that ended the call ("none" if none)
    result,     \* per detector: rows of the returned GeoDataFrame
    prev        \* per detector: what the caller kept of the previous call

vars == <<gdf, idarg, callerIds, libsym, pc, id_col, threshold, idx, rowid,
          data, log, exc, result, prev>>

Detectors == {"overlap", "gap", "containment"}

ColNames == {"bID", "id", "temp_index"}

Thresholds == 0 .. MaxThreshold

----------------------------------------------------------------------------
(* Geometries *)

Polygon(cells, rep) == [kind |-> "polygon", shape |-> cells, rep |-> rep]

\* 2 x 2 square in the lower left corner.
SqA == Polygon({<<0, 0>>, <<1, 0>>, <<0, 1>>, <<1, 1>>}, 0)

\* The same square with its ring written from another start vertex.
SqA2 == Polygon({<<0, 0>>, <<1, 0>>, <<0, 1>>, <<1, 1>>}, 1)

\* 2 x 2 square in the upper right corner: shares the centre cell with SqA.
SqB == Polygon({<<1, 1>>, <<2, 1>>, <<1, 2>>, <<2, 2>>}, 0)

\* Unit square inside SqA.
Cell == Polygon({<<0, 0>>}, 0)

\* C-shaped polygon around the centre cell, open to the east.
UShape == Polygon({<<0, 0>>, <<1, 0>>, <<2, 0>>, <<0, 1>>,
                   <<0, 2>>, <<1, 2>>, <<2, 2>>}, 0)

\* Unit square closing UShape's opening: together they enclose <<1, 1>>.
East == Polygon({<<2, 1>>}, 0)

\* A missing geometry (None).
NoGeom == [kind |-> "none", shape |-> {}, rep |-> 0]

\* A malformed (self-intersecting) ring over SqA's extent: its bounds are
\* fine, GEOS raises when an exact predicate or an overlay is evaluated on it.
Bowtie == [kind |-> "malformed",
           shape |-> {<<0, 0>>, <<1, 0>>, <<0, 1>>, <<1, 1>>}, rep |-> 0]

Polygons == {SqA, SqA2, SqB, Cell, UShape, East}

Geoms == Polygons \cup {NoGeom, Bowtie}

area(g) == Cardinality(g.shape)

\* geometry.bounds as <<minx, miny, maxx, maxy>>.
Min(S) == CHOOSE v \in S : \A w \in S : v <= w
Max(S) == CHOOSE v \in S : \A w \in S : v >= w
bounds(g) ==
    LET xs == {c[1] : c \in g.shape}
        ys == {c[2] : c \in g.shape}
    IN  <<Min(xs), Min(ys), Max(xs) + 1, Max(ys) + 1>>

BoxesIntersect(a, b) ==
    /\ a[1] <= b[3] /\ b[1] <= a[3]
    /\ a[2] <= b[4] /\ b[2] <= a[4]

\* shapely overlaps: the interiors meet and neither covers the other.
overlaps(a, b) ==
    /\ a.kind = "polygon" /\ b.kind = "polygon"
    /\ a.shape \cap b.shape # {}
    /\ ~(a.shape \subseteq b.shape)
    /\ ~(b.shape \subseteq a.shape)

\* shapely contains: a contains b.
contains(a, b) ==
    /\ a.kind = "polygon" /\ b.kind = "polygon"
    /\ b.shape # {}
    /\ b.shape \subseteq a.shape

----------------------------------------------------------------------------
(* Sequences *)

RECURSIVE Ascending(_)
\* The elements of a finite set of integers in increasing order.
Ascending(S) ==
    IF S = {} THEN <<>>
    ELSE LET m == Min(S) IN <<m>> \o Ascending(S \ {m})

\* Python list equality: same length and equal elements.
ListEq(a, b) == Len(a) = Len(b) /\ \A k \in 1 .. Len(a) : a[k] = b[k]

\* Python `x in lst`.
ListIn(x, lst) == \E k \in 1 .. Len(lst) : ListEq(x, lst[k])

RECURSIVE Gather(_, _)
Gather(s, ks) ==
    IF ks = <<>> THEN <<>> ELSE <<s[Head(ks)]>> \o Gather(s, Tail(ks))

\* A frame without the rows equal, in every column, to an earlier row.
drop_duplicates_off(rows) == rows
drop_duplicates(rows) ==
    Gather(rows, Ascending({k \in 1 .. Len(rows) :
                               \A j \in 1 .. k - 1 : rows[j] # rows[k]}))

----------------------------------------------------------------------------
(* The GeoDataFrame *)

Absent == [present |-> FALSE, vals |-> <<>>]

Column(values) == [present |-> TRUE, vals |-> values]

NRows == Len(gdf.geom)

\* gdf.index: the default RangeIndex 0 .. n-1.
Index(n) == [p \in 1 .. n |-> p - 1]

\* The frame with column c set (gdf[c] = values).
SetCol(frame, c, values) ==
    [frame EXCEPT !.col = [@ EXCEPT ![c] = Column(values)]]

\* The frame with column c deleted (del gdf[c]).
DelCol(frame, c) == [frame EXCEPT !.col = [@ EXCEPT ![c] = Absent]]

\* Ids the caller supplies in its own column: unique, not in row order.
SuppliedIds(n) == [p \in 1 .. n |-> 10 + n - p]

RECURSIVE SeqsUpTo(_, _)
\* All sequences over S of length at most n.
SeqsUpTo(S, n) ==
    IF n = 0 THEN {<<>>}
    ELSE LET shorter == SeqsUpTo(S, n - 1)
         IN  shorter \cup {Append(s, g) : s \in shorter, g \in S}

\* The state before any call: a caller's frame over geometries G, with the
\* identifier column named by a member of A.
InitWith(G, A) ==
    /\ idarg \in A
    /\ \E gs \in SeqsUpTo(G, MaxFeatures) :
          /\ callerIds = IF idarg = "None" THEN <<>> ELSE SuppliedIds(Len(gs))
          /\ gdf = [geom |-> gs,
                    col  |-> [c \in ColNames |->
                                 IF c = idarg THEN Column(callerIds)
                                 ELSE Absent]]
    /\ libsym = TRUE
    /\ pc = [d \in Detectors |-> "idle"]
    /\ id_col = [d \in Detectors |-> "None"]
    /\ threshold = [d \in Detectors |-> 0]
    /\ idx = [d \in Detectors |-> 0]
    /\ rowid = [d \in Detectors |-> Absent]
    /\ data = [d \in Detectors |-> <<>>]
    /\ log = [d \in Detectors |-> <<>>]
    /\ exc = [d \in Detectors |-> "none"]
    /\ result = [d \in Detectors |-> <<>>]
    /\ prev = [d \in Detectors |-> [called |-> FALSE, threshold |-> 0,
                                    result |-> <<>>]]

Init == InitWith(Geoms, {"None", "bID", "temp_index"})

----------------------------------------------------------------------------
(* Steps shared by the detectors *)

Warning(msg, row) == [level |-> "warning", msg |-> msg, row |-> row]

Error(msg) == [level |-> "error", msg |-> msg, row |-> 0]

\* The caller invokes detector d with threshold t.  Overlay's output bytes
\* are a property of the installed geometry library, observed from the first
\* overlay on.
Invoke(d, t) ==
    /\ pc[d] = "idle"
    /\ pc' = [pc EXCEPT ![d] = "ids"]
    /\ threshold' = [threshold EXCEPT ![d] = t]
    /\ libsym' \in IF d = "overlap" /\ ~prev[d].called
                    THEN BOOLEAN ELSE {libsym}
    /\ UNCHANGED <<gdf, idarg, callerIds, id_col, idx, rowid, data, log,
                   exc, result, prev>>

\* except Exception as e: logging.error(...); raise
Raise(d, e) ==
    /\ pc' = [pc EXCEPT ![d] = "failed"]
    /\ exc' = [exc EXCEPT ![d] = e]
    /\ log' = [log EXCEPT ![d] = Append(@, Error(e))]

\* if id_col == None: gdf["id"] = range(1, len(gdf) + 1); id_col = "id"
AssignIds(d, next) ==
    /\ pc[d] = "ids"
    /\ IF idarg = "None"
       THEN /\ gdf' = SetCol(gdf, "id", [p \in 1 .. NRows |-> p])
            /\ id_col' = [id_col EXCEPT ![d] = "id"]
       ELSE /\ gdf' = gdf
            /\ id_col' = [id_col EXCEPT ![d] = idarg]
    /\ pc' = [pc EXCEPT ![d] = next]
    /\ UNCHANGED <<idarg, callerIds, libsym, threshold, idx, rowid, data,
                   log, exc, result, prev>>

\* gdf["temp_index"] = gdf.index; spatial_index = gdf.sindex; data = [];
\* entry of `for ... in gdf.iterrows()`, which reads the rows once.
AddTempIndex(d) ==
    /\ pc[d] = "temp"
    /\ gdf' = SetCol(gdf, "temp_index", Index(NRows))
    /\ data' = [data EXCEPT ![d] = <<>>]
    /\ rowid' = [rowid EXCEPT ![d] = gdf'.col[id_col[d]]]
    /\ idx' = [idx EXCEPT ![d] = 1]
    /\ pc' = [pc EXCEPT ![d] = IF NRows = 0 THEN "finish" ELSE "loop"]
    /\ UNCHANGED <<idarg, callerIds, libsym, threshold, id_col, log, exc,
                   result, prev>>

\* The rows the spatial index holds: missing geometries are not indexed.
spatial_index == {q \in 1 .. NRows : gdf.geom[q].kind # "none"}

\* sorted([a, b])
sorted_ids_unsorted(a, b) == <<a, b>>
sorted_ids(a, b) == IF a <= b THEN <<a, b>> ELSE <<b, a>>

\* area >= threshold
MeetsThreshold_flipped(a, t) == a <= t
MeetsThreshold(a, t) == a >= t

\* del gdf["temp_index"]; drop_duplicates; return   (KeyError when another
\* call has already deleted the column)
Finish(d) ==
    /\ pc[d] = "finish"
    /\ IF gdf.col["temp_index"].present
       THEN /\ gdf' = DelCol(gdf, "temp_index")
            /\ result' = [result EXCEPT ![d] = drop_duplicates(data[d])]
            /\ pc' = [pc EXCEPT ![d] = "done"]
            /\ UNCHANGED <<log, exc>>
       ELSE /\ Raise(d, "KeyError")
            /\ UNCHANGED <<gdf, result>>
    /\ UNCHANGED <<idarg, callerIds, libsym, threshold, id_col, idx, rowid,
                   data, prev>>

----------------------------------------------------------------------------
(* check_overlap *)

\* gpd.overlay(gdf.loc[[a]], gdf.loc[[b]], how="intersection"): the common
\* region; its ring is written in an order that, unless the library
\* normalises its output, follows the first operand.
overlay(a, b) ==
    [kind  |-> "polygon",
     shape |-> gdf.geom[a].shape \cap gdf.geom[b].shape,
     rep   |-> IF libsym THEN 0 ELSE a]

\* spatial_index.intersection(row.geometry.bounds): indexed rows whose
\* bounding box meets the row's.
possible_matches_index(p) ==
    {q \in spatial_index :
        BoxesIntersect(bounds(gdf.geom[q]), bounds(gdf.geom[p]))}

\* possible_matches[possible_matches.geometry.overlaps(row.geometry)]
possible_overlaps(p) ==
    {q \in possible_matches_index(p) : overlaps(gdf.geom[q], gdf.geom[p])}

\* An exact predicate or overlay on a malformed geometry raises.
PredicateRaises(p, cands) ==
    \/ gdf.geom[p].kind = "malformed"
    \/ \E q \in cands : gdf.geom[q].kind = "malformed"

RECURSIVE OverlapRows(_, _, _, _)
\* for _, possible_overlap_row in possible_overlaps.iterrows(): lines 58-78,
\* over the copy of the frame taken at line 53.
OverlapRows(d, p, cands, acc) ==
    IF cands = <<>> THEN [exc |-> "none", data |-> acc]
    ELSE
    LET q == Head(cands) IN
    IF ~gdf.col[id_col[d]].present THEN [exc |-> "KeyError", data |-> acc]
    ELSE
    LET qid == gdf.col[id_col[d]].vals[q]
        pid == rowid[d].vals[p]
    IN
    IF qid = pid THEN OverlapRows(d, p, Tail(cands), acc)
    ELSE
    IF ~gdf.col["temp_index"].present THEN [exc |-> "KeyError", data |-> acc]
    ELSE
    LET intersection == overlay(p, gdf.col["temp_index"].vals[q] + 1)
        a == area(intersection)
        ids == sorted_ids(pid, qid)
    IN
    IF MeetsThreshold(a, threshold[d]) /\ ~ListIn(ids, acc)
    THEN OverlapRows(d, p, Tail(cands), Append(acc, ids \o <<intersection, a>>))
    ELSE OverlapRows(d, p, Tail(cands), acc)

\* Where the outer loop goes after the warning of line 51: `continue`.
AfterWarning_break(p, n) == n + 1
AfterWarning(p, n) == p + 1

LoopPc(p) == IF p > NRows THEN "finish" ELSE "loop"

\* One pass of `for index, row in gdf.iterrows()`: lines 45-78.
OverlapLoop ==
    LET d == "overlap"
        p == idx[d]
    IN
    /\ pc[d] = "loop"
    /\ IF gdf.geom[p].kind = "none"
       THEN \* row.geometry.bounds raises inside the try: warn and continue
            /\ log' = [log EXCEPT ![d] = Append(@, Warning("intersection", p))]
            /\ idx' = [idx EXCEPT ![d] = AfterWarning(p, NRows)]
            /\ pc' = [pc EXCEPT ![d] = LoopPc(idx'[d])]
            /\ UNCHANGED <<data, exc>>
       ELSE IF PredicateRaises(p, possible_matches_index(p))
       THEN /\ Raise(d, "GEOSException:overlaps")
            /\ UNCHANGED <<data, idx>>
       ELSE LET r == OverlapRows(d, p, Ascending(possible_overlaps(p)), data[d])
            IN  IF r.exc = "none"
                THEN /\ data' = [data EXCEPT ![d] = r.data]
                     /\ idx' = [idx EXCEPT ![d] = p + 1]
                     /\ pc' = [pc EXCEPT ![d] = LoopPc(p + 1)]
                     /\ UNCHANGED <<log, exc>>
                ELSE /\ Raise(d, r.exc)
                     /\ UNCHANGED <<data, idx>>
    /\ UNCHANGED <<gdf, idarg, callerIds, libsym, threshold, id_col, rowid,
                   result, prev>>

OverlapIds == AssignIds("overlap", "temp")

OverlapTemp == AddTempIndex("overlap")

OverlapFinish == Finish("overlap")

----------------------------------------------------------------------------
(* check_containment *)

\* spatial_index.query(row.geometry, predicate="contains"): the indexed rows
\* the row's geometry contains (none for a missing geometry).
contained_index(p) ==
    IF gdf.geom[p].kind = "none" THEN {}
    ELSE {q \in spatial_index : contains(gdf.geom[p], gdf.geom[q])}

\* The query evaluates the exact predicate on the rows whose box meets the
\* row's: it raises when the row or one of them is malformed.
QueryRaises(p) ==
    /\ gdf.geom[p].kind # "none"
    /\ PredicateRaises(p, possible_matches_index(p))

RECURSIVE ContainmentRows(_, _, _, _)
\* for _, possible_contained_row in possible_matches.iterrows(): lines 184-201
ContainmentRows(d, p, cands, acc) ==
    IF cands = <<>> THEN [exc |-> "none", data |-> acc]
    ELSE
    LET q == Head(cands) IN
    IF ~gdf.col[id_col[d]].present THEN [exc |-> "KeyError", data |-> acc]
    ELSE
    LET qid == gdf.col[id_col[d]].vals[q]
        pid == rowid[d].vals[p]
        a == area(gdf.geom[q])
        drop == IF a = area(gdf.geom[p]) THEN 1 ELSE 0
        ids == sorted_ids(pid, qid)
    IN
    IF qid = pid THEN ContainmentRows(d, p, Tail(cands), acc)
    ELSE
    IF /\ contains(gdf.geom[p], gdf.geom[q])
       /\ MeetsThreshold(a, threshold[d])
       /\ ~ListIn(ids, acc)
    THEN ContainmentRows(d, p, Tail(cands),
                         Append(acc, ids \o <<gdf.geom[q], a, drop>>))
    ELSE ContainmentRows(d, p, Tail(cands), acc)

\* One pass of `for _, row in gdf.iterrows()`: lines 178-201.
ContainmentLoop ==
    LET d == "containment"
        p == idx[d]
    IN
    /\ pc[d] = "loop"
    /\ IF QueryRaises(p)
       THEN /\ Raise(d, "GEOSException:sindex.query")
            /\ UNCHANGED <<data, idx>>
       ELSE LET r == ContainmentRows(d, p, Ascending(contained_index(p)), data[d])
            IN  IF r.exc = "none"
                THEN /\ data' = [data EXCEPT ![d] = r.data]
                     /\ idx' = [idx EXCEPT ![d] = p + 1]
                     /\ pc' = [pc EXCEPT ![d] = LoopPc(p + 1)]
                     /\ UNCHANGED <<log, exc>>
                ELSE /\ Raise(d, r.exc)
                     /\ UNCHANGED <<data, idx>>
    /\ UNCHANGED <<gdf, idarg, callerIds, libsym, threshold, id_col, rowid,
                   result, prev>>

ContainmentIds == AssignIds("containment", "temp")

ContainmentTemp == AddTempIndex("containment")

ContainmentFinish == Finish("containment")

----------------------------------------------------------------------------
(* check_gap *)

Abs(v) == IF v < 0 THEN 0 - v ELSE v

\* Cells sharing an edge.
EdgeAdjacent(c, e) == Abs(c[1] - e[1]) + Abs(c[2] - e[2]) = 1

\* Cells sharing an edge or a corner.
Adjacent(c, e) == c # e /\ Abs(c[1] - e[1]) <= 1 /\ Abs(c[2] - e[2]) <= 1

RECURSIVE Flood(_, _)
\* The cells of S joined to V through shared edges.
Flood(S, V) ==
    LET W == V \cup {c \in S : \E v \in V : EdgeAdjacent(c, v)}
    IN  IF W = V THEN V ELSE Flood(S, W)

\* The polygons a set of cells forms.
Parts(S) == {Flood(S, {c}) : c \in S}

\* The cells of the grid, and those on its rim (next to the open plane).
Grid == (0 .. 2) \X (0 .. 2)
Rim == {c \in Grid : c[1] \in {0, 2} \/ c[2] \in {0, 2}}

\* The interior rings of a polygon: the regions of its complement that the
\* polygon encloses, those not joined to the open plane.
Holes(S) ==
    LET free == Grid \ S
        outside == Flood(free, free \cap Rim)
    IN  Parts(free \ outside)

\* dissolve(by="diss_id"): the union of the geometries that are present.
Dissolved == UNION {gdf.geom[q].shape : q \in spatial_index}

\* GeoSeries.interiors of the dissolved row: the list of rings of a Polygon,
\* None for any other geometry (a MultiPolygon, an empty union).
InteriorsIsNone == Cardinality(Parts(Dissolved)) # 1

RECURSIVE SetToSeq(_)
SetToSeq(S) ==
    IF S = {} THEN <<>>
    ELSE LET e == CHOOSE e \in S : TRUE IN <<e>> \o SetToSeq(S \ {e})

\* gap_list = [LineString(i) for i in interiors]
gap_list ==
    SetToSeq({[kind |-> "linestring", shape |-> h, rep |-> 0] :
                 h \in Holes(Dissolved)})

\* gdf_sindex.query(gap_geom, predicate="touches"): the rows that share a
\* boundary point with the ring.
touching_index(gap_geom) ==
    {q \in spatial_index :
        \E c \in gdf.geom[q].shape : \E h \in gap_geom.shape : Adjacent(c, h)}

\* gdf_copy.iloc[...][id_col].tolist()
feature_touches(d, gap_geom) ==
    LET qs == Ascending(touching_index(gap_geom))
    IN  [k \in 1 .. Len(qs) |-> gdf.col[id_col[d]].vals[qs[k]]]

\* data_gaps: one row per ring with the ids that touch it.
data_gaps(d) ==
    [k \in 1 .. Len(gap_list) |->
        <<gap_list[k], feature_touches(d, gap_list[k])>>]

\* The outcome of lines 117-141, which read the caller's frame once, at
\* gdf.copy().  drop_duplicates hashes every cell of a frame that has rows,
\* and the lists of column feature_touches are not hashable.
GapOutcome(d) ==
    IF NRows = 0 THEN "no interiors"
    ELSE IF \E q \in 1 .. NRows : gdf.geom[q].kind = "malformed"
    THEN "GEOSException:dissolve"
    ELSE IF InteriorsIsNone THEN "TypeError:interiors"
    ELSE IF gap_list = <<>> THEN "empty"
    ELSE IF ~gdf.col[id_col[d]].present THEN "KeyError"
    ELSE "TypeError:drop_duplicates"

GapRun ==
    LET d == "gap"
        o == GapOutcome(d)
    IN
    /\ pc[d] = "run"
    /\ IF o = "no interiors"
       THEN /\ log' = [log EXCEPT ![d] = Append(@, Warning("No interiors found", 0))]
            /\ result' = [result EXCEPT ![d] = <<>>]
            /\ pc' = [pc EXCEPT ![d] = "done"]
            /\ UNCHANGED <<data, exc>>
       ELSE IF o = "empty"
       THEN /\ result' = [result EXCEPT ![d] = <<>>]
            /\ pc' = [pc EXCEPT ![d] = "done"]
            /\ UNCHANGED <<data, exc, log>>
       ELSE /\ Raise(d, o)
            /\ data' = [data EXCEPT ![d] =
                          IF o = "TypeError:drop_duplicates"
                          THEN data_gaps(d) ELSE <<>>]
            /\ UNCHANGED result
    /\ UNCHANGED <<gdf, idarg, callerIds, libsym, threshold, id_col, idx,
                   rowid, prev>>

GapIds == AssignIds("gap", "run")

----------------------------------------------------------------------------
(* Callers *)

\* One call of one detector on the frame.
Call(d, t) == (\A e \in Detectors : pc[e] = "idle") /\ Invoke(d, t)

\* The caller keeps what a call returned and calls the same detector again
\* on the same frame with another threshold.
CallAgain(d, t) ==
    /\ pc[d] = "done"
    /\ ~prev[d].called
    /\ prev' = [prev EXCEPT ![d] = [called |-> TRUE,
                                    threshold |-> threshold[d],
                                    result |-> result[d]]]
    /\ pc' = [pc EXCEPT ![d] = "ids"]
    /\ threshold' = [threshold EXCEPT ![d] = t]
    /\ UNCHANGED <<gdf, idarg, callerIds, libsym, id_col, idx, rowid, data,
                   log, exc, result>>

\* The three detectors called at once on the same frame with the default
\* thresholds.
Spawn(d) == Invoke(d, 0)

Steps ==
    \/ OverlapIds \/ OverlapTemp \/ OverlapLoop \/ OverlapFinish
    \/ ContainmentIds \/ ContainmentTemp \/ ContainmentLoop
    \/ ContainmentFinish
    \/ GapIds \/ GapRun

\* The thresholds a detector can be called with (check_gap takes none).
ArgsOf(d) == IF d = "gap" THEN {0} ELSE Thresholds

Next ==
    \/ \E d \in Detectors : \E t \in ArgsOf(d) : Call(d, t)
    \/ Steps

Spec == Init /\ [][Next]_vars

PairDetectors == {"overlap", "containment"}

\* Frames of valid polygons, for the caller that calls a detector twice.
InitTwice == InitWith(Polygons, {"None", "bID"})

NextTwice ==
    \/ \E d \in PairDetectors, t \in Thresholds : Call(d, t)
    \/ \E d \in PairDetectors, t \in Thresholds : CallAgain(d, t)
    \/ OverlapIds \/ OverlapTemp \/ OverlapLoop \/ OverlapFinish
    \/ ContainmentIds \/ ContainmentTemp \/ ContainmentLoop
    \/ ContainmentFinish

SpecTwice == InitTwice /\ [][NextTwice]_vars

\* Non-empty frames of valid polygons whose identifier column, if any, is
\* not one a detector writes.
InitPar ==
    /\ InitWith({SqA, SqB, UShape, East}, {"None", "bID"})
    /\ Len(gdf.geom) >= 1

NextPar ==
    \/ \E d \in Detectors : Spawn(d)
    \/ Steps

SpecPar == InitPar /\ [][NextPar]_vars

----------------------------------------------------------------------------
(* Properties *)

\* The unordered id pair of a result row.
PairOf(rec) == {rec[1], rec[2]}

\* The rows of detector d's result that hold the ids of rows p and q.
RowsFor(d, p, q) ==
    {k \in 1 .. Len(result[d]) :
        PairOf(result[d][k]) = {rowid[d].vals[p], rowid[d].vals[q]}}

\* Rows p and q overlap by at least detector d's threshold.
QualifiesOverlap(d, p, q) ==
    /\ overlaps(gdf.geom[p], gdf.geom[q])
    /\ Cardinality(gdf.geom[p].shape \cap gdf.geom[q].shape) >= threshold[d]

\* The rows whose bounds query failed in check_overlap (the warnings logged).
Skipped(d) ==
    {log[d][k].row : k \in {j \in 1 .. Len(log[d]) : log[d][j].msg = "intersection"}}

AllPolygons == \A q \in 1 .. NRows : gdf.geom[q].kind = "polygon"

\* C1: the result of check_overlap holds exactly one row for each unordered
\* pair of features that overlap by at least the threshold, and no two rows
\* share an unordered id pair.
C1_PairUniqueness ==
    pc["overlap"] = "done" =>
        /\ \A p, q \in 1 .. NRows :
              (p < q /\ QualifiesOverlap("overlap", p, q))
                  => Cardinality(RowsFor("overlap", p, q)) = 1
        /\ \A j, k \in 1 .. Len(result["overlap"]) :
              j # k => PairOf(result["overlap"][j]) # PairOf(result["overlap"][k])

\* C2: two features with identical geometry whose area reaches min_area give
\* exactly one row of check_containment's result for their pair, and that
\* row has drop = 1.
C2_DuplicateOnce ==
    pc["containment"] = "done" =>
        \A p, q \in 1 .. NRows :
            (/\ p < q
             /\ gdf.geom[p].kind = "polygon"
             /\ gdf.geom[p] = gdf.geom[q]
             /\ area(gdf.geom[p]) >= threshold["containment"])
            => /\ Cardinality(RowsFor("containment", p, q)) = 1
               /\ \A k \in RowsFor("containment", p, q) :
                      result["containment"][k][5] = 1

\* C2's case: a finished check_containment over two identical polygons of
\* area at least min_area, with a threshold above zero.
C2_Witness ==
    /\ pc["containment"] = "done"
    /\ threshold["containment"] > 0
    /\ \E p, q \in 1 .. NRows :
          /\ p < q
          /\ gdf.geom[p].kind = "polygon"
          /\ gdf.geom[p] = gdf.geom[q]
          /\ area(gdf.geom[p]) >= threshold["containment"]
          /\ RowsFor("containment", p, q) # {}

\* C3: in every detector a failed spatial-index query for one feature does
\* not abort the call, and check_overlap still returns every qualifying pair
\* among the other features.
C3_QueryFailureSkips ==
    /\ \A d \in Detectors : exc[d] # "GEOSException:sindex.query"
    /\ pc["overlap"] = "done" =>
          \A p, q \in 1 .. NRows :
              (/\ p < q /\ p \notin Skipped("overlap") /\ q \notin Skipped("overlap")
               /\ QualifiesOverlap("overlap", p, q))
              => RowsFor("overlap", p, q) # {}

\* C4: detectors running at once over the same frame do not disturb one
\* another: no call fails on a column another call added or deleted.
C4_NoInterference == \A d \in Detectors : exc[d] # "KeyError"

\* C5: when the union of the features of a non-empty frame has no interior
\* rings, check_gap returns an empty result and logs the no-gaps warning.
C5_NoGapsWarned ==
    (/\ pc["gap"] \in {"done", "failed"}
     /\ NRows >= 1
     /\ AllPolygons
     /\ Holes(Dissolved) = {})
    => /\ pc["gap"] = "done"
       /\ result["gap"] = <<>>
       /\ \E k \in 1 .. Len(log["gap"]) : log["gap"][k].msg = "No interiors found"

\* C6: check_gap returns exactly one row per interior ring of the union,
\* also when the union has several parts, each with the ids of the features
\* touching the ring.
C6_OneRecordPerHole ==
    (pc["gap"] \in {"done", "failed"} /\ AllPolygons)
    => /\ pc["gap"] = "done"
       /\ Len(result["gap"]) = Cardinality(Holes(Dissolved))
       /\ \A h \in Holes(Dissolved) :
             \E k \in 1 .. Len(result["gap"]) :
                 /\ result["gap"][k][1].shape = h
                 /\ result["gap"][k][2] = feature_touches("gap", result["gap"][k][1])

\* C7: for the same frame, a call with a threshold at least as high returns
\* no more rows, and only pairs the call with the lower threshold returned.
C7_ThresholdMonotone ==
    \A d \in PairDetectors :
        (pc[d] = "done" /\ prev[d].called) =>
            LET lo == IF prev[d].threshold <= threshold[d]
                      THEN prev[d].result ELSE result[d]
                hi == IF prev[d].threshold <= threshold[d]
                      THEN result[d] ELSE prev[d].result
            IN  /\ Len(hi) <= Len(lo)
                /\ {PairOf(hi[k]) : k \in 1 .. Len(hi)}
                       \subseteq {PairOf(lo[k]) : k \in 1 .. Len(lo)}

\* C7's case: a second call with a higher threshold that returned fewer rows
\* than the first, but not none.
C7_Witness ==
    \E d \in PairDetectors :
        /\ pc[d] = "done" /\ prev[d].called
        /\ prev[d].threshold < threshold[d]
        /\ Len(result[d]) >= 1
        /\ Len(result[d]) < Len(prev[d].result)

\* C8: every row of check_overlap's and check_containment's result holds two
\* different ids, the smaller first.
C8_SortedDistinctIds ==
    \A d \in PairDetectors :
        pc[d] = "done" =>
            \A k \in 1 .. Len(result[d]) : result[d][k][1] < result[d][k][2]

\* C8's case: a returned row for a pair whose first member, in row order,
\* has the larger id.
C8_Witness ==
    \E d \in PairDetectors :
        /\ pc[d] = "done"
        /\ idarg = "bID"
        /\ Len(result[d]) >= 1

\* C9: with no id column designated the features get the ids 1 .. n in row
\* order; a designated id column keeps the values the caller supplied.
C9_IdsAssignedOrKept ==
    \A d \in Detectors :
        pc[d] \notin {"idle", "ids"} =>
            IF idarg = "None"
            THEN gdf.col["id"] = Column([p \in 1 .. NRows |-> p])
            ELSE gdf.col[idarg] = Column(callerIds)

\* C10: in check_overlap no row of the result names a feature whose bounds
\* query failed, and the other features are still processed: every
\* qualifying pair among them is returned.
C10_SkippedExcluded ==
    pc["overlap"] = "done" =>
        /\ \A p \in Skipped("overlap") :
              \A k \in 1 .. Len(result["overlap"]) :
                  rowid["overlap"].vals[p] \notin PairOf(result["overlap"][k])
        /\ \A p, q \in 1 .. NRows :
              (/\ p < q /\ p \notin Skipped("overlap") /\ q \notin Skipped("overlap")
               /\ QualifiesOverlap("overlap", p, q))
              => RowsFor("overlap", p, q) # {}

\* C10's case: check_overlap finished after a bounds query failed for the
\* first row, with a pair among the later rows returned.
C10_Witness ==
    /\ pc["overlap"] = "done"
    /\ 1 \in Skipped("overlap")
    /\ Len(result["overlap"]) >= 1

====
